---- MODULE Spec2Model ----
(***************************************************************************)
(* State-machine models of the notebooks of the repository:                *)
(*   - genai-5day-course-with-google/codes/                                *)
(*     day-2-classifying-embedding-with-pytorch.ipynb: the training cell   *)
(*     (Spec), sample_data (SampleSpec), create_embeddings and the         *)
(*     classifier setup (EmbedSpec), preprocess_newsgroup_row (TextSpec),  *)
(*     the two sampled splits and predict_category (SplitSpec);            *)
(*   - the database agent's tools (AgentSpec);                             *)
(*   - codes/AutoGen/autogen_tutorial.ipynb: the two-agent chats           *)
(*     (ChatSpec) and generate_random_number (RngSpec);                    *)
(*   - the dummy-agent notebook: the hand-rolled agent step (StepSpec).    *)
(***************************************************************************)
EXTENDS Integers, Sequences, FiniteSets, TLC

VARIABLES
    \* ---- training cell ----
    pc,            \* position in the training cell
    epoch,         \* the loop variable of `for epoch in range(NUM_EPOCHS)`
    batch,         \* index of the next mini-batch of train_loader
    total,         \* train_epoch's `total`
    params,        \* the classifier's parameter storage (identified by the
                   \* number of in-place optimizer updates applied to it)
    grad,          \* state of the parameters' .grad buffers
    mode,          \* model.training: "train" / "eval"
    val_acc,       \* correct count returned by the last evaluate()
    best_val_acc,
    patience,      \* value bound to the name `patience` (when bound)
    defined,       \* names bound in the notebook namespace
    probabilities, \* the softmax vector of the last prediction, in 1/ONE
    \* ---- history of the run (recorded, never read by the program) ----
    ops,           \* operations applied to the current mini-batch, in order
    updates,       \* optimizer.step calls in the current epoch
    train_calls,   \* invocations of train_epoch
    evals,         \* invocations of evaluate
    decisions,     \* executions of the early-stopping bookkeeping
    seen,          \* validation accuracies evaluated so far
    snap,          \* parameter values at the end of the last improving epoch
    predictions,   \* invocations of predict_category
    \* ---- sample_data ----
    spc,           \* position: "raw" / "call" / "returned" / "ValueError"
    target,        \* newsgroup_dataset.target: the label of each document
    target_names,  \* newsgroup_dataset.target_names
    df,            \* the input DataFrame: sequence of rows
    num_samples,
    classes_to_keep,
    result,        \* the returned DataFrame
    \* ---- create_embeddings and the model setup ----
    epc,           \* position in the embedding / setup cells
    n_docs,        \* rows of df_train and of df_test
    dim,           \* length of the vectors the embedding model returns
    frame,         \* the create_embeddings call running: 1 df_train, 2 df_test
    next_row,      \* row progress_apply hands to embed_fn next
    outstanding,   \* embedding requests in flight
    requests,      \* rows embed_fn was called for in this call, in order
    fetched,       \* lengths of the vectors returned so far in this call
    embeddings,    \* the "Embeddings" columns assigned so far (vector lengths)
    failed_row,    \* row whose embedding call raised (0: none)
    in_features,   \* in_features of the classifier's first Linear layer
    via_setup,     \* the classifier was built by the setup cell
    \* ---- the SQL tools of the advanced agent ----
    tool,          \* the tool the agent called last
    sql,           \* its argument
    outcome,       \* what the call returned or raised
    executed_sql,  \* the statement the last call ran on db_conn
    logged,        \* the last call wrote a logging.error record
    \* ---- preprocess_newsgroup_row ----
    tpc,           \* position: "raw" / "cleaned"
    msg,           \* the parsed post: its header fields and its payload
    text,          \* the returned text
    \* ---- the two splits: df_train, df_test, class_names ----
    xpc,           \* position in the configuration cell and the prediction
    corpora,       \* newsgroups_train and newsgroups_test: names and labels
    num_train,     \* TRAIN_NUM_SAMPLES
    num_test,      \* TEST_NUM_SAMPLES
    df_train,      \* sample_data(preprocess_newsgroup_data(newsgroups_train))
    df_test,       \* sample_data(preprocess_newsgroup_data(newsgroups_test))
    class_names,   \* df_test["Class Name"].cat.categories, as passed on
    \* ---- the AutoGen two-agent chats ----
    cpc,           \* "running" / "ended" ("idle" outside the chats)
    chat,          \* the initiate_chat cell running: "guess" / "tool"
    history,       \* chat_history: the messages sent so far, in order
    auto_replies,  \* each agent's count of consecutive auto replies
    suggested,     \* tool calls suggested so far (call ids 1..suggested)
    executed,      \* tool executions so far: the agent and the call id
    \* ---- the hand-rolled agent step ----
    gpc,           \* position: "prompted" / "halted" / "observed"
    model_text,    \* what the model would write, unconstrained, in tokens
    output_text,   \* `output`: the value text_generation returned
    weather_calls, \* invocations of get_weather
    new_prompt,    \* the follow-up prompt
    \* ---- generate_random_number ----
    rpc,           \* position: "call" / "drawn" / "returned" / "ValueError"
    shape,         \* the argument `shape`
    scale,         \* the argument `scale`
    draws,         \* invocations of np.random.gamma
    sample,        \* the float np.random.gamma returned, in halves
    number         \* the returned integer

trainVars == <<pc, epoch, batch, total, params, grad, mode, val_acc,
               best_val_acc, patience, defined, probabilities, ops, updates,
               train_calls, evals, decisions, seen, snap, predictions>>

sampleVars == <<spc, target, target_names, df, num_samples, classes_to_keep,
                result>>

embedVars == <<epc, n_docs, dim, frame, next_row, outstanding, requests,
               fetched, embeddings, failed_row, in_features, via_setup>>

agentVars == <<tool, sql, outcome, executed_sql, logged>>

textVars == <<tpc, msg, text>>

splitVars == <<xpc, corpora, num_train, num_test, df_train, df_test,
               class_names>>

chatVars == <<cpc, chat, history, auto_replies, suggested, executed>>

stepVars == <<gpc, model_text, output_text, weather_calls, new_prompt>>

rngVars == <<rpc, shape, scale, draws, sample, number>>

laterVars == <<splitVars, chatVars, stepVars, rngVars>>

vars == <<trainVars, sampleVars, embedVars, agentVars, textVars, laterVars>>

SplitIdle ==
    /\ xpc = "idle"
    /\ corpora = <<>>
    /\ num_train = 0
    /\ num_test = 0
    /\ df_train = <<>>
    /\ df_test = <<>>
    /\ class_names = <<>>

ChatIdle ==
    /\ cpc = "idle"
    /\ chat = "none"
    /\ history = <<>>
    /\ auto_replies = <<>>
    /\ suggested = 0
    /\ executed = <<>>

StepIdle ==
    /\ gpc = "idle"
    /\ model_text = <<>>
    /\ output_text = <<>>
    /\ weather_calls = 0
    /\ new_prompt = <<>>

RngIdle ==
    /\ rpc = "idle"
    /\ shape = 0
    /\ scale = 0
    /\ draws = 0
    /\ sample = 0
    /\ number = 0

LaterIdle == SplitIdle /\ ChatIdle /\ StepIdle /\ RngIdle

----------------------------------------------------------------------------
(* Configuration of the training cell *)

NUM_EPOCHS == 20

PATIENCE == 5

BATCH_SIZE == 32

\* Size of the training split (400 in the notebook's run).
TrainSize == 65

\* Size of the validation split (100 in the notebook's run): val_acc is
\* correct / ValSize, modelled by its numerator.
ValSize == 4

\* Number of classes the classifier was built for.
NumClasses == 2

\* Number of predict_category calls explored after the loop.
MaxPredictions == 1

\* a loader that drops the last, incomplete mini-batch
NumBatches_DropLast == TrainSize \div BATCH_SIZE

\* len(train_loader) = ceil(N / BATCH_SIZE), drop_last = False
NumBatches == (TrainSize + BATCH_SIZE - 1) \div BATCH_SIZE

\* labels.size(0) of mini-batch b (0-based): the last one may be short
BatchLen(b) ==
    IF (b + 1) * BATCH_SIZE <= TrainSize THEN BATCH_SIZE
    ELSE TrainSize - b * BATCH_SIZE

Min(a, b) == IF a < b THEN a ELSE b

----------------------------------------------------------------------------
(* Pieces of the training cell *)

\* range(NUM_EPOCHS + 1): one iteration too many
RangeHasNext_OffByOne(e) == e + 1 <= NUM_EPOCHS

\* `for epoch in range(NUM_EPOCHS)`: is there a next iteration after `e`
RangeHasNext(e) == e + 1 < NUM_EPOCHS

\* `for inputs, labels in train_loader`: position after the loop head
ForBatchNext(b) == IF b < NumBatches THEN "zero_grad" ELSE "evaluate"

\* optimizer.step() written before loss.backward()
BodyNext_StepBeforeBackward(p) ==
    CASE p = "zero_grad" -> "forward"
      [] p = "forward"   -> "loss"
      [] p = "loss"      -> "step"
      [] p = "step"      -> "backward"
      [] p = "backward"  -> "for_batch"

\* the statement sequence of the body of train_epoch's loop
BodyNext(p) ==
    CASE p = "zero_grad" -> "forward"
      [] p = "forward"   -> "loss"
      [] p = "loss"      -> "backward"
      [] p = "backward"  -> "step"
      [] p = "step"      -> "for_batch"

\* optimizer.step(): Adam updates the parameter tensors in place
StepParams(p) == p + 1

\* an evaluate() that also steps the optimizer
EvalParams_Trains(p) == p + 1

\* evaluate(): model.eval() and torch.no_grad(); forward passes only
EvalParams(p) == p

\* a prediction that first loads the best checkpoint into the model
PredictParams_LoadsBest(p) == snap

\* predict_category(): model.eval() and torch.no_grad(); forward + softmax
PredictParams(p) == p

\* `if val_acc > best_val_acc`
Improves(v, best) == v > best

\* the assignment to best_val_acc left out
NewBest_Stale(v, best) == best

\* `best_val_acc = val_acc`
NewBest(v, best) == v

\* `if patience > PATIENCE`
ShouldStop(p) == p > PATIENCE

\* model.state_dict() returns references to the live parameter tensors, so
\* the value read through best_model is the current content of the storage
BestModelValue == params

LoopExited == pc \in {"stopped", "exhausted", "NameError"}

----------------------------------------------------------------------------
(* Actions of the training cell *)

TrainFields ==
    /\ epoch = -1
    /\ batch = 0
    /\ total = 0
    /\ params = 0
    /\ grad = "none"
    /\ mode = "train"
    /\ val_acc = 0
    /\ best_val_acc = 0
    /\ patience = 0
    /\ defined = {}
    /\ probabilities = <<>>
    /\ ops = <<>>
    /\ updates = 0
    /\ train_calls = 0
    /\ evals = 0
    /\ decisions = 0
    /\ seen = {}
    /\ snap = 0
    /\ predictions = 0

TrainInit == pc = "for_epoch" /\ TrainFields

TrainIdle == pc = "idle" /\ TrainFields

\* loop head with a next epoch: enter train_epoch (model.train(), counters)
ForEpoch ==
    /\ pc = "for_epoch"
    /\ RangeHasNext(epoch)
    /\ epoch' = epoch + 1
    /\ mode' = "train"
    /\ total' = 0
    /\ batch' = 0
    /\ updates' = 0
    /\ ops' = <<>>
    /\ train_calls' = train_calls + 1
    /\ pc' = "for_batch"
    /\ UNCHANGED <<params, grad, val_acc, best_val_acc, patience, defined,
                   probabilities, evals, decisions, seen, snap, predictions,
                   sampleVars, embedVars, agentVars, textVars,
                   laterVars>>

\* loop head with range(NUM_EPOCHS) exhausted
LoopExhausted ==
    /\ pc = "for_epoch"
    /\ ~RangeHasNext(epoch)
    /\ pc' = "exhausted"
    /\ UNCHANGED <<epoch, batch, total, params, grad, mode, val_acc,
                   best_val_acc, patience, defined, probabilities, ops,
                   updates, train_calls, evals, decisions, seen, snap,
                   predictions,
                   sampleVars, embedVars, agentVars, textVars,
                   laterVars>>

\* head of `for inputs, labels in tqdm(train_loader)`
ForBatch ==
    /\ pc = "for_batch"
    /\ pc' = ForBatchNext(batch)
    /\ ops' = <<>>
    /\ UNCHANGED <<epoch, batch, total, params, grad, mode, val_acc,
                   best_val_acc, patience, defined, probabilities, updates,
                   train_calls, evals, decisions, seen, snap, predictions,
                   sampleVars, embedVars, agentVars, textVars,
                   laterVars>>

\* optimizer.zero_grad()
ZeroGrad ==
    /\ pc = "zero_grad"
    /\ grad' = "zero"
    /\ ops' = Append(ops, "zero_grad")
    /\ pc' = BodyNext(pc)
    /\ UNCHANGED <<epoch, batch, total, params, mode, val_acc, best_val_acc,
                   patience, defined, probabilities, updates, train_calls,
                   evals, decisions, seen, snap, predictions,
                   sampleVars, embedVars, agentVars, textVars,
                   laterVars>>

\* outputs = model(inputs)
Forward ==
    /\ pc = "forward"
    /\ ops' = Append(ops, "forward")
    /\ pc' = BodyNext(pc)
    /\ UNCHANGED <<epoch, batch, total, params, grad, mode, val_acc,
                   best_val_acc, patience, defined, probabilities, updates,
                   train_calls, evals, decisions, seen, snap, predictions,
                   sampleVars, embedVars, agentVars, textVars,
                   laterVars>>

\* loss = criterion(outputs, labels)
ComputeLoss ==
    /\ pc = "loss"
    /\ ops' = Append(ops, "loss")
    /\ pc' = BodyNext(pc)
    /\ UNCHANGED <<epoch, batch, total, params, grad, mode, val_acc,
                   best_val_acc, patience, defined, probabilities, updates,
                   train_calls, evals, decisions, seen, snap, predictions,
                   sampleVars, embedVars, agentVars, textVars,
                   laterVars>>

\* loss.backward()
Backward ==
    /\ pc = "backward"
    /\ grad' = "computed"
    /\ ops' = Append(ops, "backward")
    /\ pc' = BodyNext(pc)
    /\ UNCHANGED <<epoch, batch, total, params, mode, val_acc, best_val_acc,
                   patience, defined, probabilities, updates, train_calls,
                   evals, decisions, seen, snap, predictions,
                   sampleVars, embedVars, agentVars, textVars,
                   laterVars>>

\* optimizer.step(), then the statistics of the mini-batch
OptimizerStep ==
    /\ pc = "step"
    /\ params' = StepParams(params)
    /\ total' = total + BatchLen(batch)
    /\ batch' = batch + 1
    /\ updates' = updates + 1
    /\ ops' = Append(ops, "step")
    /\ pc' = BodyNext(pc)
    /\ UNCHANGED <<epoch, grad, mode, val_acc, best_val_acc, patience,
                   defined, probabilities, train_calls, evals, decisions,
                   seen, snap, predictions,
                   sampleVars, embedVars, agentVars, textVars,
                   laterVars>>

\* val_loss, val_acc = evaluate(model, val_loader, criterion, device)
Evaluate ==
    /\ pc = "evaluate"
    /\ mode' = "eval"
    /\ params' = EvalParams(params)
    /\ \E correct \in 0..ValSize :
          /\ val_acc' = correct
          /\ seen' = seen \cup {correct}
    /\ evals' = evals + 1
    /\ pc' = "bookkeep"
    /\ UNCHANGED <<epoch, batch, total, grad, best_val_acc, patience, defined,
                   probabilities, ops, updates, train_calls, decisions, snap,
                   predictions,
                   sampleVars, embedVars, agentVars, textVars,
                   laterVars>>

\* the if / else after evaluate: improvement, or patience += 1 and the check
Bookkeep ==
    /\ pc = "bookkeep"
    /\ decisions' = decisions + 1
    /\ IF Improves(val_acc, best_val_acc)
       THEN /\ best_val_acc' = NewBest(val_acc, best_val_acc)
            /\ defined' = defined \cup {"best_model", "patience"}
            /\ snap' = params
            /\ patience' = 0
            /\ pc' = "for_epoch"
       ELSE IF "patience" \notin defined
       THEN \* `patience += 1` reads an unbound name
            /\ pc' = "NameError"
            /\ UNCHANGED <<best_val_acc, defined, snap, patience>>
       ELSE /\ patience' = patience + 1
            /\ pc' = IF ShouldStop(patience + 1) THEN "stopped"
                     ELSE "for_epoch"
            /\ UNCHANGED <<best_val_acc, defined, snap>>
    /\ UNCHANGED <<epoch, batch, total, params, grad, mode, val_acc,
                   probabilities, ops, updates, train_calls, evals, seen,
                   predictions,
                   sampleVars, embedVars, agentVars, textVars,
                   laterVars>>

\* largest logit the classifier puts out
MaxLogit == 1

\* the value 1.0 of the fixed-point probabilities
ONE == 1024

RECURSIVE Pow2(_)
Pow2(n) == IF n = 0 THEN 1 ELSE 2 * Pow2(n - 1)

RECURSIVE SumSeq(_)
SumSeq(q) == IF q = <<>> THEN 0 ELSE Head(q) + SumSeq(Tail(q))

MaxOf(q) ==
    CHOOSE m \in {q[i] : i \in DOMAIN q} : \A i \in DOMAIN q : q[i] <= m

\* the exponentials of the logits, shifted by the largest one and rounded
\* down to a multiple of 1/ONE (powers of 2 stand for powers of e)
Exps(output) ==
    [i \in DOMAIN output |-> ONE \div Pow2(MaxOf(output) - output[i])]

\* a softmax that divides by the largest exponential
Softmax_ByMax(output) ==
    [i \in DOMAIN output |->
        (Exps(output)[i] * ONE) \div MaxOf(Exps(output))]

\* nn.functional.softmax(output, dim=1)[0]: each exponential over their sum
Softmax(output) ==
    [i \in DOMAIN output |->
        (Exps(output)[i] * ONE) \div SumSeq(Exps(output))]

\* predict_category(new_text, model, embed_model, class_names), run after
\* the training cell
Predict ==
    /\ LoopExited
    /\ predictions < MaxPredictions
    /\ mode' = "eval"
    /\ params' = PredictParams(params)
    /\ \E output \in [1..NumClasses -> 0..MaxLogit] :
         probabilities' = Softmax(output)
    /\ predictions' = predictions + 1
    /\ UNCHANGED <<pc, epoch, batch, total, grad, val_acc, best_val_acc,
                   patience, defined, ops, updates, train_calls, evals,
                   decisions, seen, snap, sampleVars, embedVars,
                   agentVars, textVars, laterVars>>

Next ==
    \/ ForEpoch
    \/ LoopExhausted
    \/ ForBatch
    \/ ZeroGrad
    \/ Forward
    \/ ComputeLoss
    \/ Backward
    \/ OptimizerStep
    \/ Evaluate
    \/ Bookkeep
    \/ Predict

----------------------------------------------------------------------------
(* sample_data(df, num_samples, classes_to_keep) *)

\* Longest input DataFrame explored.
MaxRows == 4

\* Largest num_samples explored.
MaxSamples == 2

\* Class names and patterns are strings, modelled as sequences of code
\* points so that they can be searched and compared as Python does.
Str_rec_autos == <<114, 101, 99, 46, 97, 117, 116, 111, 115>>
Str_sci_med   == <<115, 99, 105, 46, 109, 101, 100>>
Str_sci_crypt == <<115, 99, 105, 46, 99, 114, 121, 112, 116>>
Str_sci       == <<115, 99, 105>>
Str_c         == <<99>>
Str_med       == <<109, 101, 100>>
Str_comp      == <<99, 111, 109, 112>>

ClassNames == {Str_rec_autos, Str_sci_med, Str_sci_crypt}

Patterns == {Str_sci, Str_c, Str_med, Str_comp}

Labels == 0..(Cardinality(ClassNames) - 1)

\* target_names in any order: a DataFrame's labels need not follow the
\* alphabetical order of its class names
TargetNameOrders ==
    {t \in [1..Cardinality(ClassNames) -> ClassNames] :
        \A i, j \in DOMAIN t : i # j => t[i] # t[j]}

\* Python's str < str: lexicographic by code point
LexLess(a, b) ==
    \/ \E i \in 1..Min(Len(a), Len(b)) :
          /\ a[i] < b[i]
          /\ \A j \in 1..(i - 1) : a[j] = b[j]
    \/ /\ Len(a) < Len(b)
       /\ \A j \in 1..Len(a) : a[j] = b[j]

\* Series.str.contains(pat) for a pattern of literal characters
Contains(s, pat) ==
    \E i \in 0..(Len(s) - Len(pat)) :
        \A j \in 1..Len(pat) : s[i + j] = pat[j]

\* preprocess_newsgroup_data: one row per document, Class Name looked up
\* from the label
MakeDf(names, labs) ==
    [i \in DOMAIN labs |->
        [Text |-> i, Label |-> labs[i], ClassName |-> names[labs[i] + 1]]]

\* df.groupby("Label"): the keys present, and the rows of one group
GroupKeys(d) == {d[i].Label : i \in DOMAIN d}

Group(d, l) == {i \in DOMAIN d : d[i].Label = l}

RECURSIVE SortedKeys(_)
SortedKeys(S) ==
    IF S = {} THEN <<>>
    ELSE LET m == CHOOSE x \in S : \A y \in S : x <= y
         IN  <<m>> \o SortedKeys(S \ {m})

\* every selection of n distinct rows of S, in any order
Draws(S, n) ==
    {s \in [1..n -> S] : \A i, j \in 1..n : i # j => s[i] # s[j]}

\* x.sample(min(num_samples, len(x))): a short group yields what it has
Sample_Truncating(S, n) ==
    [raised |-> FALSE, draws |-> Draws(S, Min(n, Cardinality(S)))]

\* x.sample(num_samples), replace=False: pandas raises ValueError when the
\* group is smaller than the sample, and else draws n distinct rows
Sample(S, n) ==
    IF n > Cardinality(S)
    THEN [raised |-> TRUE, draws |-> {}]
    ELSE [raised |-> FALSE, draws |-> Draws(S, n)]

\* .apply(lambda x: x.sample(num_samples)).reset_index(drop=True): the
\* groups' samples concatenated in key order
RECURSIVE Sampled(_, _, _)
Sampled(d, keys, n) ==
    IF keys = <<>> THEN {<<>>}
    ELSE {s \o t : s \in Sample(Group(d, Head(keys)), n).draws,
                   t \in Sampled(d, Tail(keys), n)}

\* the filter left out
KeepRow_All(name, pat) == TRUE

\* df[df["Class Name"].str.contains(classes_to_keep)]
KeepRow(name, pat) == Contains(name, pat)

\* astype("category"): the categories are the sorted distinct values
RECURSIVE Categories(_)
Categories(S) ==
    IF S = {} THEN <<>>
    ELSE LET m == CHOOSE x \in S : \A y \in S \ {x} : LexLess(x, y)
         IN  <<m>> \o Categories(S \ {m})

\* the original label kept instead of the category code
EncodedLabel_Raw(row, cats) == row.Label

\* .cat.codes: the position of the row's value among the categories
EncodedLabel(row, cats) ==
    (CHOOSE i \in DOMAIN cats : cats[i] = row.ClassName) - 1

\* the DataFrame sample_data returns for one outcome `idx` of the sampling
Encode(d, idx, pat) ==
    LET rows == [i \in DOMAIN idx |-> d[idx[i]]]
        kept == SelectSeq(rows, LAMBDA r : KeepRow(r.ClassName, pat))
        cats == Categories({kept[i].ClassName : i \in DOMAIN kept})
    IN  [i \in DOMAIN kept |->
            [Text |-> kept[i].Text, Label |-> kept[i].Label,
             ClassName |-> kept[i].ClassName,
             EncodedLabel |-> EncodedLabel(kept[i], cats)]]

\* a sample_data that drops the rows it filters out from the caller's frame
CallerFrame_InPlace(d, pat) ==
    SelectSeq(d, LAMBDA r : Contains(r.ClassName, pat))

\* the caller's DataFrame after sample_data: the function rebinds its local
\* name df to new frames and adds the columns to the filtered copy
CallerFrame(d, pat) == d

SampleInit ==
    /\ spc = "raw"
    /\ target_names \in TargetNameOrders
    /\ \E n \in 1..MaxRows : target \in [1..n -> Labels]
    /\ df = <<>>
    /\ num_samples \in 0..MaxSamples
    /\ classes_to_keep \in Patterns
    /\ result = <<>>

\* preprocess_newsgroup_data(newsgroup_dataset): builds a new DataFrame
PreprocessData ==
    /\ spc = "raw"
    /\ df' = MakeDf(target_names, target)
    /\ spc' = "call"
    /\ UNCHANGED <<target, target_names, num_samples, classes_to_keep, result>>
    /\ UNCHANGED <<trainVars, embedVars, agentVars, textVars, laterVars>>

\* a sample_data that filters by class name first and samples what is left
SampledKeys_FilterFirst(d, pat) ==
    {l \in GroupKeys(d) :
        \E i \in Group(d, l) : Contains(d[i].ClassName, pat)}

\* the groups x.sample is applied to: groupby("Label") runs on the whole
\* input, the class-name filter comes after it
SampledKeys(d, pat) == GroupKeys(d)

\* sample_data(d, n, pat): it raises, or returns one of these DataFrames
SampleDataCall(d, n, pat) ==
    IF \E l \in SampledKeys(d, pat) : Sample(Group(d, l), n).raised
    THEN [raised |-> TRUE, frames |-> {}]
    ELSE [raised |-> FALSE,
          frames |-> {Encode(d, idx, pat) :
                        idx \in Sampled(d, SortedKeys(SampledKeys(d, pat)), n)}]

SampleData ==
    /\ spc = "call"
    /\ LET call == SampleDataCall(df, num_samples, classes_to_keep)
       IN  IF call.raised
           THEN /\ spc' = "ValueError"
                /\ result' = <<>>
           ELSE /\ spc' = "returned"
                /\ \E frame_out \in call.frames : result' = frame_out
    /\ df' = CallerFrame(df, classes_to_keep)
    /\ UNCHANGED <<target, target_names, num_samples, classes_to_keep>>
    /\ UNCHANGED <<trainVars, embedVars, agentVars, textVars, laterVars>>

SampleNext ==
    \/ PreprocessData
    \/ SampleData

SampleIdle ==
    /\ spc = "idle"
    /\ target = <<>>
    /\ target_names = <<>>
    /\ df = <<>>
    /\ num_samples = 0
    /\ classes_to_keep = <<>>
    /\ result = <<>>

EmbedIdle ==
    /\ epc = "idle"
    /\ n_docs = <<>>
    /\ dim = 0
    /\ frame = 0
    /\ next_row = 0
    /\ outstanding = 0
    /\ requests = <<>>
    /\ fetched = <<>>
    /\ embeddings = <<>>
    /\ failed_row = 0
    /\ in_features = 0
    /\ via_setup = FALSE

AgentIdle ==
    /\ tool = "none"
    /\ sql = <<>>
    /\ outcome = "none"
    /\ executed_sql = <<>>
    /\ logged = FALSE

TextIdle ==
    /\ tpc = "idle"
    /\ msg = <<>>
    /\ text = <<>>

Init ==
    TrainInit /\ SampleIdle /\ EmbedIdle /\ AgentIdle /\ TextIdle /\ LaterIdle

Spec == Init /\ [][Next]_vars

\* ------------------------------------------------------------------
\* create_embeddings and the model setup
\* ------------------------------------------------------------------

MaxDocs == 2

MaxDim == 3

\* a create_embeddings that leaves the failed row out and goes on
AfterRaise_Skip(row) == [pc |-> "apply", next |-> row + 1]

\* an exception raised by embed_fn leaves progress_apply and
\* create_embeddings: nothing catches it
AfterRaise(row) == [pc |-> "raised", next |-> row]

\* an input width taken from the number of rows
SetupInputSize_Rows(col) == Len(col)

\* input_size = len(df_train['Embeddings'].iloc[0])
SetupInputSize(col) == col[1]

\* nn.Linear(in_features, ...) applied to a batch of the given width
ForwardOutcome(in_f, width) ==
    IF in_f = width THEN "forward_ok" ELSE "RuntimeError"

EmbedInit ==
    /\ epc = "apply"
    /\ n_docs \in [1..2 -> 1..MaxDocs]
    /\ dim \in 1..MaxDim
    /\ frame = 1
    /\ next_row = 1
    /\ outstanding = 0
    /\ requests = <<>>
    /\ fetched = <<>>
    /\ embeddings = <<>>
    /\ failed_row = 0
    /\ in_features = 0
    /\ via_setup = FALSE

\* progress_apply calls embed_fn on the next row of df["Text"]
EmbedRequest ==
    /\ epc = "apply"
    /\ outstanding = 0
    /\ next_row <= n_docs[frame]
    /\ requests' = Append(requests, next_row)
    /\ outstanding' = 1
    /\ UNCHANGED <<epc, n_docs, dim, frame, next_row, fetched, embeddings,
                   failed_row, in_features, via_setup>>
    /\ UNCHANGED <<trainVars, sampleVars, agentVars, textVars, laterVars>>

\* embed_model.get_text_embedding returns the vector
EmbedReturn ==
    /\ epc = "apply"
    /\ outstanding = 1
    /\ fetched' = Append(fetched, dim)
    /\ outstanding' = 0
    /\ next_row' = next_row + 1
    /\ UNCHANGED <<epc, n_docs, dim, frame, requests, embeddings, failed_row,
                   in_features, via_setup>>
    /\ UNCHANGED <<trainVars, sampleVars, agentVars, textVars, laterVars>>

\* embed_model.get_text_embedding raises, the client's retries being spent
EmbedRaise ==
    /\ epc = "apply"
    /\ outstanding = 1
    /\ outstanding' = 0
    /\ failed_row' = next_row
    /\ epc' = AfterRaise(next_row).pc
    /\ next_row' = AfterRaise(next_row).next
    /\ UNCHANGED <<n_docs, dim, frame, requests, fetched, embeddings,
                   in_features, via_setup>>
    /\ UNCHANGED <<trainVars, sampleVars, agentVars, textVars, laterVars>>

\* df["Embeddings"] = <the Series progress_apply returned>; return df.
\* The next cell line then calls create_embeddings(df_test).
AssignColumn ==
    /\ epc = "apply"
    /\ outstanding = 0
    /\ next_row > n_docs[frame]
    /\ embeddings' = Append(embeddings, fetched)
    /\ IF frame = 1
         THEN /\ frame' = 2
              /\ next_row' = 1
              /\ requests' = <<>>
              /\ fetched' = <<>>
              /\ failed_row' = 0
              /\ epc' = "apply"
         ELSE /\ epc' = "embedded"
              /\ UNCHANGED <<frame, next_row, requests, fetched, failed_row>>
    /\ UNCHANGED <<n_docs, dim, outstanding, in_features, via_setup>>
    /\ UNCHANGED <<trainVars, sampleVars, agentVars, textVars, laterVars>>

\* the setup cell: np.stack of both columns, then the classifier built with
\* the length of the first training embedding
SetupModel ==
    /\ epc = "embedded"
    /\ in_features' = SetupInputSize(embeddings[1])
    /\ via_setup' = TRUE
    /\ epc' = "built"
    /\ UNCHANGED <<n_docs, dim, frame, next_row, outstanding, requests,
                   fetched, embeddings, failed_row>>
    /\ UNCHANGED <<trainVars, sampleVars, agentVars, textVars, laterVars>>

\* NewsGroupClassifier(input_size, hidden_size, num_classes) called with any
\* input_size: __init__ only builds the layers
ConstructDirect ==
    /\ epc = "embedded"
    /\ \E input_size \in 1..MaxDim : in_features' = input_size
    /\ via_setup' = FALSE
    /\ epc' = "built"
    /\ UNCHANGED <<n_docs, dim, frame, next_row, outstanding, requests,
                   fetched, embeddings, failed_row>>
    /\ UNCHANGED <<trainVars, sampleVars, agentVars, textVars, laterVars>>

\* model(embeddings) on a batch of x_train or x_val
ForwardPass ==
    /\ epc = "built"
    /\ \E f \in 1..2 :
         epc' = ForwardOutcome(in_features, embeddings[f][1])
    /\ UNCHANGED <<n_docs, dim, frame, next_row, outstanding, requests,
                   fetched, embeddings, failed_row, in_features, via_setup>>
    /\ UNCHANGED <<trainVars, sampleVars, agentVars, textVars, laterVars>>

EmbedNext ==
    \/ EmbedRequest
    \/ EmbedReturn
    \/ EmbedRaise
    \/ AssignColumn
    \/ SetupModel
    \/ ConstructDirect
    \/ ForwardPass

EmbedStart ==
    EmbedInit /\ TrainIdle /\ SampleIdle /\ AgentIdle /\ TextIdle /\ LaterIdle

EmbedSpec == EmbedStart /\ [][EmbedNext]_vars

\* ------------------------------------------------------------------
\* The SQL tools of the advanced agent
\* ------------------------------------------------------------------

MaxFrags == 2

\* "SELECT 1"
Q_select_1 ==
    <<83, 69, 76, 69, 67, 84, 32, 49>>

\* "select updated_at from t"
Q_select_updated_at ==
    <<115, 101, 108, 101, 99, 116, 32, 117, 112, 100, 97, 116, 101, 100,
    95, 97, 116, 32, 102, 114, 111, 109, 32, 116>>

\* "Select * From t"
Q_select_star ==
    <<83, 101, 108, 101, 99, 116, 32, 42, 32, 70, 114, 111, 109, 32, 116>>

\* "selection"
Q_selection ==
    <<115, 101, 108, 101, 99, 116, 105, 111, 110>>

\* "DROP TABLE t"
Q_drop ==
    <<68, 82, 79, 80, 32, 84, 65, 66, 76, 69, 32, 116>>

\* "delete from t"
Q_delete ==
    <<100, 101, 108, 101, 116, 101, 32, 102, 114, 111, 109, 32, 116>>

\* "Insert into t values (1)"
Q_insert ==
    <<73, 110, 115, 101, 114, 116, 32, 105, 110, 116, 111, 32, 116, 32,
    118, 97, 108, 117, 101, 115, 32, 40, 49, 41>>

\* "alter table t add c"
Q_alter ==
    <<97, 108, 116, 101, 114, 32, 116, 97, 98, 108, 101, 32, 116, 32, 97,
    100, 100, 32, 99>>

\* "TRUNCATE t"
Q_truncate ==
    <<84, 82, 85, 78, 67, 65, 84, 69, 32, 116>>

\* "update t set c = 1"
Q_update ==
    <<117, 112, 100, 97, 116, 101, 32, 116, 32, 115, 101, 116, 32, 99, 32,
    61, 32, 49>>

\* ";"
Q_semicolon ==
    <<59>>

\* "; SELECT 1"
Q_then_select_1 ==
    <<59, 32, 83, 69, 76, 69, 67, 84, 32, 49>>

\* " "
Q_space ==
    <<32>>

\* "\n\t"
Q_newline_tab ==
    <<10, 9>>

\* "t"
Q_t ==
    <<116>>

Fragments ==
    {Q_select_1, Q_select_updated_at, Q_select_star, Q_selection, Q_drop,
     Q_delete, Q_insert, Q_alter, Q_truncate, Q_update, Q_semicolon,
     Q_then_select_1, Q_space, Q_newline_tab, Q_t}

\* "select"
Str_select ==
    <<115, 101, 108, 101, 99, 116>>

\* dangerous_keywords
dangerous_keywords ==
    << <<100, 114, 111, 112>>,
       <<100, 101, 108, 101, 116, 101>>,
       <<117, 112, 100, 97, 116, 101>>,
       <<105, 110, 115, 101, 114, 116>>,
       <<97, 108, 116, 101, 114>>,
       <<116, 114, 117, 110, 99, 97, 116, 101>> >>

\* "SELECT name FROM sqlite_master WHERE type='table';"
Str_list_tables_sql ==
    <<83, 69, 76, 69, 67, 84, 32, 110, 97, 109, 101, 32, 70, 82, 79, 77,
    32, 115, 113, 108, 105, 116, 101, 95, 109, 97, 115, 116, 101, 114, 32,
    87, 72, 69, 82, 69, 32, 116, 121, 112, 101, 61, 39, 116, 97, 98, 108,
    101, 39, 59>>

\* "PRAGMA table_info("
Str_pragma_open ==
    <<80, 82, 65, 71, 77, 65, 32, 116, 97, 98, 108, 101, 95, 105, 110,
    102, 111, 40>>

\* ");"
Str_pragma_close ==
    <<41, 59>>

RECURSIVE Concat(_)
Concat(ss) == IF ss = <<>> THEN <<>> ELSE Head(ss) \o Concat(Tail(ss))

\* the strings the agent may pass to a tool
Queries ==
    UNION {{Concat(fs) : fs \in [1..n -> Fragments]} : n \in 0..MaxFrags}

\* str.isspace for the ASCII range
IsSpace(c) == c \in (9..13) \cup (28..32)

\* a lower() that leaves the text as it is
LowerChar_Identity(c) == c

\* str.lower on one ASCII character
LowerChar(c) == IF c \in 65..90 THEN c + 32 ELSE c

Lower(t) == [i \in DOMAIN t |-> LowerChar(t[i])]

RECURSIVE LStrip(_)
LStrip(t) ==
    IF t # <<>> /\ IsSpace(Head(t)) THEN LStrip(Tail(t)) ELSE t

RECURSIVE RStrip(_)
RStrip(t) ==
    IF t # <<>> /\ IsSpace(t[Len(t)])
      THEN RStrip(SubSeq(t, 1, Len(t) - 1))
      ELSE t

\* str.strip()
Strip(t) == RStrip(LStrip(t))

\* str.startswith
StartsWith(t, prefix) ==
    /\ Len(prefix) <= Len(t)
    /\ SubSeq(t, 1, Len(prefix)) = prefix

\* validate_query(sql)
ValidateQuery(q) ==
    LET lowered == Lower(q)
    IN  IF ~StartsWith(Strip(lowered), Str_select)
          THEN FALSE
          ELSE ~(\E k \in DOMAIN dangerous_keywords :
                    Contains(lowered, dangerous_keywords[k]))

\* whitespace in front of a statement
SqlSpace(c) == c \in {9, 10, 12, 13, 32}

\* what may follow a statement's semicolon in one execute() call
TailSpace(c) == c \in {9, 10, 13, 32}

RECURSIVE SkipLeading(_)
SkipLeading(q) ==
    IF q # <<>> /\ (SqlSpace(Head(q)) \/ Head(q) = 59)
      THEN SkipLeading(Tail(q))
      ELSE q

RECURSIVE DropTrailingSpace(_)
DropTrailingSpace(q) ==
    IF q # <<>> /\ SqlSpace(q[Len(q)])
      THEN DropTrailingSpace(SubSeq(q, 1, Len(q) - 1))
      ELSE q

\* index of the first semicolon of q, Len(q) + 1 when it has none
FirstSemicolon(q) ==
    IF \E i \in DOMAIN q : q[i] = 59
      THEN CHOOSE i \in DOMAIN q : q[i] = 59 /\ \A j \in 1..(i - 1) : q[j] # 59
      ELSE Len(q) + 1

\* the statement cursor.execute prepares: the text up to the first
\* semicolon, empty statements in front of it skipped
FirstStatement(q) ==
    LET body == SkipLeading(q)
    IN  DropTrailingSpace(SubSeq(body, 1, FirstSemicolon(body) - 1))

\* more SQL follows the first statement
HasSecondStatement(q) ==
    LET body == SkipLeading(q)
    IN  \E j \in (FirstSemicolon(body) + 1)..Len(body) : ~TailSpace(body[j])

IsName(a) ==
    /\ a # <<>>
    /\ \A i \in DOMAIN a : a[i] \in (65..90) \cup (97..122)

\* the statements of the pool that end in a table or column name
NamedStatements ==
    {Q_select_updated_at, Q_select_star, Q_drop, Q_delete, Q_alter}

\* the other complete statements of the pool
PlainStatements == {Q_select_1, Q_insert, Q_update}

\* the text is a statement SQLite can prepare: a statement of the pool, one
\* of them with a longer name at its end, or PRAGMA table_info(<name>)
WellFormed(stmt) ==
    \/ stmt \in NamedStatements \cup PlainStatements
    \/ \E base \in NamedStatements :
         /\ StartsWith(stmt, base)
         /\ IsName(SubSeq(stmt, Len(base) + 1, Len(stmt)))
    \/ /\ StartsWith(stmt, Str_pragma_open)
       /\ stmt[Len(stmt)] = 41
       /\ IsName(DropTrailingSpace(SkipLeading(
              SubSeq(stmt, Len(Str_pragma_open) + 1, Len(stmt) - 1))))

\* cursor.execute(q); cursor.fetchall() on db_conn.  A string without a
\* statement returns no rows; a malformed statement fails to prepare; a
\* well-formed one runs or fails on the database at hand (missing table,
\* locked file); a string with a second statement is refused with
\* sqlite3.Warning once the first statement has prepared.
ExecuteOutcomes(q) ==
    IF FirstStatement(q) = <<>> /\ ~HasSecondStatement(q) THEN {"rows"}
    ELSE IF ~WellFormed(FirstStatement(q)) THEN {"sqlite3.Error"}
    ELSE IF HasSecondStatement(q) THEN {"sqlite3.Error", "sqlite3.Warning"}
    ELSE {"rows", "sqlite3.Error"}

\* safe_execute_query: except sqlite3.Error -> raise DatabaseError
SafeExecuteResult(o) ==
    CASE o = "rows" -> "rows"
      [] o = "sqlite3.Error" -> "DatabaseError"
      [] OTHER -> o

\* what ran on the database: the statement, when the execute succeeded
Ran(q, o) == IF o = "rows" THEN FirstStatement(q) ELSE <<>>

AgentInit ==
    /\ tool = "none"
    /\ sql \in Queries
    /\ outcome = "none"
    /\ executed_sql = <<>>
    /\ logged = FALSE

\* the agent calls validate_query(sql)
CallValidateQuery ==
    /\ tool' = "validate_query"
    /\ outcome' = IF ValidateQuery(sql) THEN "True" ELSE "False"
    /\ executed_sql' = <<>>
    /\ logged' = FALSE
    /\ UNCHANGED sql
    /\ UNCHANGED <<trainVars, sampleVars, embedVars, textVars, laterVars>>

\* the agent calls safe_execute_query(sql)
CallSafeExecuteQuery ==
    /\ tool' = "safe_execute_query"
    /\ \E o \in ExecuteOutcomes(sql) :
         /\ outcome' = SafeExecuteResult(o)
         /\ executed_sql' = Ran(sql, o)
         /\ logged' = (o = "sqlite3.Error")
    /\ UNCHANGED sql
    /\ UNCHANGED <<trainVars, sampleVars, embedVars, textVars, laterVars>>

\* the agent calls list_tables()
CallListTables ==
    /\ tool' = "list_tables"
    /\ outcome' = "rows"
    /\ executed_sql' = Str_list_tables_sql
    /\ logged' = FALSE
    /\ UNCHANGED sql
    /\ UNCHANGED <<trainVars, sampleVars, embedVars, textVars, laterVars>>

\* the agent calls describe_table(sql): the argument is pasted into a
\* PRAGMA statement and nothing is caught
CallDescribeTable ==
    /\ tool' = "describe_table"
    /\ LET stmt == Str_pragma_open \o sql \o Str_pragma_close
       IN  \E o \in ExecuteOutcomes(stmt) :
             /\ outcome' = o
             /\ executed_sql' = Ran(stmt, o)
    /\ logged' = FALSE
    /\ UNCHANGED sql
    /\ UNCHANGED <<trainVars, sampleVars, embedVars, textVars, laterVars>>

AgentNext ==
    \/ CallValidateQuery
    \/ CallSafeExecuteQuery
    \/ CallListTables
    \/ CallDescribeTable

AgentStart ==
    AgentInit /\ TrainIdle /\ SampleIdle /\ EmbedIdle /\ TextIdle /\ LaterIdle

AgentSpec == AgentStart /\ [][AgentNext]_vars

\* ------------------------------------------------------------------
\* preprocess_newsgroup_row
\* ------------------------------------------------------------------
\* A text is a sequence of character codes; a negative entry -n stands for
\* n consecutive spaces, so that posts longer than the 5000-character cut
\* stay small.

TRUNCATE_LEN == 5000

MaxBody == 4

\* "None": what the f-string prints for a missing Subject
Str_None == <<78, 111, 110, 101>>

\* "a@a"
Str_address == <<97, 64, 97>>

\* the characters of [\w.-] in the ASCII range
IsWordChar(c) ==
    c \in (48..57) \cup (65..90) \cup (97..122) \cup {95, 45, 46}

RECURSIVE TextLen(_)
TextLen(t) ==
    IF t = <<>> THEN 0
    ELSE (IF Head(t) < 0 THEN 0 - Head(t) ELSE 1) + TextLen(Tail(t))

\* how many characters of [\w.-] start at position i of t
ClassRun(t, i) ==
    LET stop == CHOOSE j \in i..(Len(t) + 1) :
                   /\ j = Len(t) + 1 \/ ~IsWordChar(t[j])
                   /\ \A k \in i..(j - 1) : IsWordChar(t[k])
    IN  stop - i

\* length of the match of [\w.-]+@[\w.-]+ that starts at the head of t,
\* 0 when there is none
MatchLen(t) ==
    LET k == ClassRun(t, 1)
    IN  IF k >= 1 /\ k + 2 <= Len(t) /\ t[k + 1] = 64
             /\ ClassRun(t, k + 2) >= 1
          THEN k + 1 + ClassRun(t, k + 2)
          ELSE 0

\* a substitution that stops after the first match
RECURSIVE RemoveEmails_FirstOnly(_)
RemoveEmails_FirstOnly(t) ==
    IF t = <<>> THEN <<>>
    ELSE IF MatchLen(t) > 0 THEN SubSeq(t, MatchLen(t) + 1, Len(t))
    ELSE <<Head(t)>> \o RemoveEmails_FirstOnly(Tail(t))

\* re.sub(r"[\w\.-]+@[\w\.-]+", "", text): every leftmost non-overlapping
\* match is replaced by the empty string
RECURSIVE RemoveEmails(_)
RemoveEmails(t) ==
    IF t = <<>> THEN <<>>
    ELSE IF MatchLen(t) > 0
      THEN RemoveEmails(SubSeq(t, MatchLen(t) + 1, Len(t)))
    ELSE <<Head(t)>> \o RemoveEmails(Tail(t))

\* text[:n]
RECURSIVE Truncate(_, _)
Truncate(t, n) ==
    IF t = <<>> \/ n = 0 THEN <<>>
    ELSE IF Head(t) < 0
      THEN IF 0 - Head(t) >= n
             THEN <<0 - n>>
             ELSE <<Head(t)>> \o Truncate(Tail(t), n + Head(t))
    ELSE <<Head(t)>> \o Truncate(Tail(t), n - 1)

\* msg['Subject']: the value of the first Subject field, None without one
SubjectOf(m) ==
    IF \E i \in DOMAIN m.headers : m.headers[i].name = "Subject"
      THEN m.headers[CHOOSE i \in DOMAIN m.headers :
                        /\ m.headers[i].name = "Subject"
                        /\ \A j \in 1..(i - 1) : m.headers[j].name # "Subject"]
             .value
      ELSE Str_None

\* f"{msg['Subject']}\n\n{msg.get_payload()}"
SubjectAndBody(m) == SubjectOf(m) \o <<10, 10>> \o m.payload

\* preprocess_newsgroup_row on the parsed post
PreprocessRow(m) == Truncate(RemoveEmails(SubjectAndBody(m)), TRUNCATE_LEN)

\* header fields of the posts: a sender (marked by #) and two subjects
HeaderFields ==
    { [name |-> "From", value |-> <<35>>],
      [name |-> "Subject", value |-> <<97>>],
      [name |-> "Subject", value |-> Str_address] }

\* characters of the payloads: a, @, !, and two long runs of spaces
BodyAlphabet == {97, 64, 33, 4 - TRUNCATE_LEN, 2 - TRUNCATE_LEN}

TextInit ==
    /\ tpc = "raw"
    /\ \E n \in 0..2 : \E hs \in [1..n -> HeaderFields] :
         \E b \in 0..MaxBody : \E body \in [1..b -> BodyAlphabet] :
            msg = [headers |-> hs, payload |-> body]
    /\ text = <<>>

\* preprocess_newsgroup_row(data), data parsed into msg
PreprocessNewsgroupRow ==
    /\ tpc = "raw"
    /\ text' = PreprocessRow(msg)
    /\ tpc' = "cleaned"
    /\ UNCHANGED msg
    /\ UNCHANGED <<trainVars, sampleVars, embedVars, agentVars, laterVars>>

TextNext == PreprocessNewsgroupRow

TextStart ==
    TextInit /\ TrainIdle /\ SampleIdle /\ EmbedIdle /\ AgentIdle /\ LaterIdle

TextSpec == TextStart /\ [][TextNext]_vars

\* ------------------------------------------------------------------
\* The two splits and the class names given to predict_category
\* ------------------------------------------------------------------

\* documents of one split of the corpus
SplitRows == MaxRows - 2

\* samples per class asked of a split
SplitSamples == MaxSamples - 1

\* CLASSES_TO_KEEP = "sci"
CLASSES_TO_KEEP == Str_sci

\* categories in the order of the original labels
CatCategories_ByLabel(frame_in) ==
    LET labs == SortedKeys({frame_in[i].Label : i \in DOMAIN frame_in})
    IN  [k \in DOMAIN labs |->
            (CHOOSE r \in {frame_in[i] : i \in DOMAIN frame_in} :
                 r.Label = labs[k]).ClassName]

\* df["Class Name"].cat.categories: the sorted distinct class names
CatCategories(frame_in) ==
    Categories({frame_in[i].ClassName : i \in DOMAIN frame_in})

\* a corpus subset as fetch_20newsgroups returns it
Corpora ==
    {[target_names |-> t, target |-> labs] :
        t \in TargetNameOrders,
        labs \in UNION {[1..n -> Labels] : n \in 1..SplitRows}}

SplitInit ==
    /\ xpc = "config"
    /\ corpora \in [{"train", "test"} -> Corpora]
    /\ num_train \in 1..SplitSamples
    /\ num_test \in 1..SplitSamples
    /\ df_train = <<>>
    /\ df_test = <<>>
    /\ class_names = <<>>

\* df_train = sample_data(preprocess_newsgroup_data(newsgroups_train), ...)
SampleTrainSplit ==
    /\ xpc = "config"
    /\ LET c == corpora["train"]
           call == SampleDataCall(MakeDf(c.target_names, c.target),
                                  num_train, CLASSES_TO_KEEP)
       IN  IF call.raised
           THEN /\ xpc' = "ValueError"
                /\ UNCHANGED df_train
           ELSE /\ xpc' = "train_sampled"
                /\ \E frame_out \in call.frames : df_train' = frame_out
    /\ UNCHANGED <<corpora, num_train, num_test, df_test, class_names>>
    /\ UNCHANGED <<trainVars, sampleVars, embedVars, agentVars, textVars>>
    /\ UNCHANGED <<chatVars, stepVars, rngVars>>

\* df_test = sample_data(preprocess_newsgroup_data(newsgroups_test), ...)
SampleTestSplit ==
    /\ xpc = "train_sampled"
    /\ LET c == corpora["test"]
           call == SampleDataCall(MakeDf(c.target_names, c.target),
                                  num_test, CLASSES_TO_KEEP)
       IN  IF call.raised
           THEN /\ xpc' = "ValueError"
                /\ UNCHANGED df_test
           ELSE /\ xpc' = "test_sampled"
                /\ \E frame_out \in call.frames : df_test' = frame_out
    /\ UNCHANGED <<corpora, num_train, num_test, df_train, class_names>>
    /\ UNCHANGED <<trainVars, sampleVars, embedVars, agentVars, textVars>>
    /\ UNCHANGED <<chatVars, stepVars, rngVars>>

\* predict_category(new_text, model, embed_model,
\*                  df_test["Class Name"].cat.categories)
PredictWithClassNames ==
    /\ xpc = "test_sampled"
    /\ class_names' = CatCategories(df_test)
    /\ xpc' = "predicted"
    /\ UNCHANGED <<corpora, num_train, num_test, df_train, df_test>>
    /\ UNCHANGED <<trainVars, sampleVars, embedVars, agentVars, textVars>>
    /\ UNCHANGED <<chatVars, stepVars, rngVars>>

SplitNext ==
    \/ SampleTrainSplit
    \/ SampleTestSplit
    \/ PredictWithClassNames

SplitStart ==
    /\ SplitInit
    /\ TrainIdle /\ SampleIdle /\ EmbedIdle /\ AgentIdle /\ TextIdle
    /\ ChatIdle /\ StepIdle /\ RngIdle

SplitSpec == SplitStart /\ [][SplitNext]_vars

SampleStart ==
    SampleInit /\ TrainIdle /\ EmbedIdle /\ AgentIdle /\ TextIdle /\ LaterIdle

SampleSpec == SampleStart /\ [][SampleNext]_vars

----------------------------------------------------------------------------
(* Properties of the training cell (specification Spec) *)

\* C1: the loop exits only by early stopping, at the first epoch after
\* which the patience counter exceeds PATIENCE (counter = PATIENCE + 1), or
\* after NUM_EPOCHS epochs; while the counter is <= PATIENCE and fewer than
\* NUM_EPOCHS epochs have run it goes on to the next epoch; nothing is
\* trained once the counter exceeds PATIENCE.
C1_StopsOnPatienceOrMaxEpochs ==
    /\ LoopExited =>
          \/ (pc = "stopped" /\ "patience" \in defined
                             /\ patience = PATIENCE + 1)
          \/ (pc = "exhausted" /\ train_calls = NUM_EPOCHS)
    /\ ( /\ pc = "for_epoch"
         /\ train_calls < NUM_EPOCHS
         /\ ("patience" \in defined => patience <= PATIENCE) )
          => ENABLED ForEpoch
    /\ ("patience" \in defined /\ patience > PATIENCE) => pc = "stopped"

\* C2: the bookkeeping of every epoch leaves the patience counter at 0 when
\* the epoch's validation accuracy strictly exceeds the best seen before it,
\* and otherwise at exactly one more than its value after the previous
\* epoch (an accuracy equal to the best counts as not improving).
C2_PatienceCounter ==
    [][pc = "bookkeep" =>
          IF val_acc > best_val_acc
          THEN "patience" \in defined' /\ patience' = 0
          ELSE /\ "patience" \in defined
               /\ "patience" \in defined'
               /\ patience' = patience + 1]_vars

\* C3: the values read through best_model are those the classifier had at
\* the end of the most recent improving epoch: updates made in later epochs
\* leave them unchanged, up to and including loop exit.
C3_CheckpointIsSnapshot ==
    "best_model" \in defined => BestModelValue = snap

\* C4: once an epoch's bookkeeping is done, best_val_acc is >= the
\* validation accuracy of every epoch evaluated so far.
C4_BestIsMaximum ==
    pc # "bookkeep" => \A a \in seen : best_val_acc >= a

C4_Witness ==
    /\ pc = "stopped"
    /\ Cardinality(seen) >= 3
    /\ val_acc < best_val_acc

\* C5: train_epoch is invoked at most NUM_EPOCHS times, and at the loop
\* head after the NUM_EPOCHS-th epoch the loop can only exit.
C5_AtMostNumEpochs ==
    /\ train_calls <= NUM_EPOCHS
    /\ (pc = "for_epoch" /\ train_calls = NUM_EPOCHS) =>
          (~ENABLED ForEpoch /\ ENABLED LoopExhausted)

C5_Witness == pc = "exhausted" /\ train_calls = NUM_EPOCHS

BatchOrder == <<"zero_grad", "forward", "loss", "backward", "step">>

IsPrefix(s, t) ==
    /\ Len(s) <= Len(t)
    /\ \A i \in 1..Len(s) : s[i] = t[i]

\* C6: the operations on a mini-batch follow the order zero_grad, forward,
\* loss, backward, step, with one update per processed mini-batch; an
\* epoch's evaluation has run only when all its mini-batches are processed,
\* and its early-stopping decision is taken only after its evaluation.
C6_EpochOrder ==
    /\ IsPrefix(ops, BatchOrder)
    /\ updates = batch
    /\ (pc = "for_batch" /\ batch > 0) => ops = BatchOrder
    /\ evals <= train_calls
    /\ (train_calls > 0 /\ evals = train_calls) =>
          (batch = NumBatches /\ updates = NumBatches)
    /\ decisions <= evals

C6_Witness ==
    /\ decisions >= 2
    /\ decisions = train_calls
    /\ updates = NumBatches
    /\ NumBatches >= 2

\* C7: a step changes the parameters only when it is the optimizer.step of
\* train_epoch; evaluate and predict_category leave them as they are.
C7_OnlyOptimizerStepMutates ==
    [][params' # params => (pc = "step" /\ mode = "train")]_vars

C7_Witness ==
    /\ predictions >= 1
    /\ evals >= 2
    /\ params = train_calls * NumBatches

----------------------------------------------------------------------------
(* Properties of sample_data (specification SampleSpec) *)

RowsOf(l) == {i \in DOMAIN result : result[i].Label = l}

NameOf(l) == target_names[l + 1]

\* C8: when every class of the input has at least num_samples documents,
\* sample_data returns exactly num_samples rows (distinct documents of that
\* class) for each class whose name matches the pattern and no row of any
\* other class: num_samples * k rows for k matching classes.
C8_BalancedSample ==
    ( /\ spc \in {"returned", "ValueError"}
      /\ \A l \in GroupKeys(df) : Cardinality(Group(df, l)) >= num_samples )
    =>
    /\ spc = "returned"
    /\ \A l \in Labels :
          Cardinality(RowsOf(l)) =
             IF l \in GroupKeys(df) /\ Contains(NameOf(l), classes_to_keep)
             THEN num_samples ELSE 0
    /\ \A i \in DOMAIN result :
          /\ result[i].Text \in Group(df, result[i].Label)
          /\ result[i].ClassName = NameOf(result[i].Label)
          /\ \A j \in DOMAIN result : i # j => result[i].Text # result[j].Text
    /\ Len(result) = num_samples *
          Cardinality({l \in GroupKeys(df) :
                          Contains(NameOf(l), classes_to_keep)})

C8_Witness ==
    /\ spc = "returned"
    /\ num_samples = 2
    /\ Len(result) = 4
    /\ Cardinality(GroupKeys(df)) = 2
    /\ classes_to_keep = Str_sci

\* C9: Encoded Label is the rank of the row's class name among the class
\* names retained, in sorted order from 0: equal labels exactly for equal
\* names, and every label in [0, k).
C9_DenseSortedLabels ==
    spc = "returned" =>
       LET names == {result[i].ClassName : i \in DOMAIN result}
       IN  \A i \in DOMAIN result :
              /\ result[i].EncodedLabel =
                    Cardinality({m \in names :
                                    LexLess(m, result[i].ClassName)})
              /\ result[i].EncodedLabel \in 0..(Cardinality(names) - 1)
              /\ \A j \in DOMAIN result :
                    (result[i].EncodedLabel = result[j].EncodedLabel)
                       <=> (result[i].ClassName = result[j].ClassName)

C9_Witness ==
    /\ spc = "returned"
    /\ Cardinality({result[i].ClassName : i \in DOMAIN result}) >= 2
    /\ \E i \in DOMAIN result : result[i].EncodedLabel # result[i].Label

\* C10: when num_samples exceeds the number of documents of some class of
\* the input, sample_data raises and returns nothing; a returned DataFrame
\* never comes from a class with fewer than num_samples documents.
C10_FailsWhenInsufficient ==
    /\ ( /\ spc \in {"returned", "ValueError"}
         /\ \E l \in GroupKeys(df) : num_samples > Cardinality(Group(df, l)) )
       => (spc = "ValueError" /\ result = <<>>)
    /\ spc = "returned" =>
          \A l \in GroupKeys(df) : Cardinality(Group(df, l)) >= num_samples

C10_Witness ==
    /\ spc = "ValueError"
    /\ \E l \in GroupKeys(df) :
          /\ num_samples > Cardinality(Group(df, l))
          /\ Contains(NameOf(l), classes_to_keep)

\* C11: data preparation leaves its inputs as they were: the corpus keeps
\* its labels and names through preprocess_newsgroup_data and sample_data,
\* and the DataFrame passed to sample_data keeps its rows and values.
C11_InputsUntouched ==
    [][ /\ target' = target
        /\ target_names' = target_names
        /\ spc = "call" => df' = df ]_vars

C11_Witness ==
    /\ spc = "returned"
    /\ df = MakeDf(target_names, target)
    /\ Len(result) > 0
    /\ Len(result) < Len(df)

\* the rows 1..n in order
RowsUpTo(n) == [i \in 1..n |-> i]

\* C12: create_embeddings asks for one embedding at a time, in row order,
\* with at most one request in flight; when a call raises, the error ends
\* the operation: no later row is requested, no row is skipped and the
\* Embeddings column of that frame stays unassigned; an assigned column has
\* one vector per row.
C12_SequentialAbortOnFailure ==
    /\ outstanding \in {0, 1}
    /\ requests = RowsUpTo(Len(requests))
    /\ Len(requests) = Len(fetched) + outstanding
                         + (IF failed_row # 0 THEN 1 ELSE 0)
    /\ failed_row # 0 =>
         /\ epc = "raised"
         /\ Len(requests) = failed_row
         /\ Len(embeddings) < frame
    /\ \A f \in 1..Len(embeddings) : Len(embeddings[f]) = n_docs[f]

C12_Witness ==
    /\ epc = "raised"
    /\ frame = 2
    /\ failed_row = 1
    /\ n_docs[2] = 2
    /\ Len(embeddings) = 1

\* the classifier exists
Constructed == epc \in {"built", "forward_ok", "RuntimeError"}

\* C14 as stated: every embedding has the same dimensionality, and a
\* classifier that was constructed has that input width (a different width
\* would have failed at construction).
C14_FailsAtConstruction ==
    /\ \A f \in 1..Len(embeddings) :
         \A i \in 1..Len(embeddings[f]) : embeddings[f][i] = dim
    /\ Constructed => in_features = dim

\* C14, amended: every embedding has the same dimensionality; the setup cell
\* builds the classifier with that input width; a classifier constructed
\* with another width is built all the same and fails at its first forward
\* pass, which succeeds exactly when the widths agree.
C14_MismatchFailsAtForward ==
    /\ \A f \in 1..Len(embeddings) :
         \A i \in 1..Len(embeddings[f]) : embeddings[f][i] = dim
    /\ (Constructed /\ via_setup) => in_features = dim
    /\ epc = "forward_ok" => in_features = dim
    /\ epc = "RuntimeError" => (in_features # dim /\ ~via_setup)
    /\ (epc = "built" /\ in_features # dim) =>
         /\ ENABLED ForwardPass
         /\ \A f \in 1..2 :
              ForwardOutcome(in_features, embeddings[f][1]) = "RuntimeError"

C14_Witness ==
    /\ epc = "RuntimeError"
    /\ in_features # dim
    /\ Len(embeddings) = 2

\* C15 as stated: whatever the advanced tool set has run on the database is
\* a statement that validate_query accepts.
C15_OnlyValidatedSqlRuns ==
    executed_sql # <<>> => ValidateQuery(executed_sql)

\* case-insensitive occurrence of word at offset i of q
MatchesAt(q, i, word) ==
    /\ i + Len(word) <= Len(q)
    /\ \A j \in 1..Len(word) :
         \/ q[i + j] = word[j]
         \/ q[i + j] + 32 = word[j] /\ q[i + j] \in 65..90

\* q, its leading whitespace put aside, starts with the word select
BeginsWithSelect(q) ==
    \E i \in 0..Len(q) :
        /\ \A j \in 1..i : IsSpace(q[j])
        /\ MatchesAt(q, i, Str_select)

\* q holds one of the six words somewhere, in any case
HoldsDangerousWord(q) ==
    \E k \in DOMAIN dangerous_keywords :
        \E i \in 0..Len(q) : MatchesAt(q, i, dangerous_keywords[k])

\* C16: validate_query returns True exactly when the query, lower-cased and
\* stripped, starts with select and none of drop, delete, update, insert,
\* alter, truncate occurs anywhere in it.
C16_ValidateQueryIff ==
    tool = "validate_query" =>
        (outcome = "True"
           <=> (BeginsWithSelect(sql) /\ ~HoldsDangerousWord(sql)))

C16_Witness ==
    /\ tool = "validate_query"
    /\ sql = Q_select_updated_at
    /\ outcome = "False"

\* C17 as stated: safe_execute_query returns the rows or raises
\* DatabaseError, with a log record for the error.
C17_RowsOrDatabaseError ==
    tool = "safe_execute_query" =>
        \/ outcome = "rows" /\ ~logged
        \/ outcome = "DatabaseError" /\ logged

\* some @ of t stands between two characters of [\w.-]
HasEmailLike(t) ==
    \E i \in 2..(Len(t) - 1) :
        /\ t[i] = 64
        /\ IsWordChar(t[i - 1])
        /\ IsWordChar(t[i + 1])

\* C18: the text returned by preprocess_newsgroup_row has at most 5000
\* characters, holds no substring matching [\w.-]+@[\w.-]+ and nothing of
\* the header fields other than Subject; a post without any @ that fits in
\* 5000 characters comes back as its subject, a blank line and its body.
C18_CleanedText ==
    tpc = "cleaned" =>
        /\ TextLen(text) <= TRUNCATE_LEN
        /\ ~HasEmailLike(text)
        /\ \A i \in DOMAIN text : text[i] # 35
        /\ \A subject \in {Str_None, <<97>>} :
             ( /\ \A i \in DOMAIN msg.payload : msg.payload[i] # 64
               /\ TextLen(subject \o <<10, 10>> \o msg.payload) <= TRUNCATE_LEN
               /\ IF subject = Str_None
                    THEN \A i \in DOMAIN msg.headers :
                           msg.headers[i].name # "Subject"
                    ELSE \E i \in DOMAIN msg.headers :
                           /\ msg.headers[i] = [name |-> "Subject",
                                                value |-> subject]
                           /\ \A j \in 1..(i - 1) :
                                msg.headers[j].name # "Subject" )
             => text = subject \o <<10, 10>> \o msg.payload

C18_Witness ==
    /\ tpc = "cleaned"
    /\ TextLen(text) = TRUNCATE_LEN
    /\ HasEmailLike(msg.payload)
    /\ \E i \in DOMAIN msg.headers : msg.headers[i].name = "From"

\* C20: predict_category yields one probability for each of the K classes,
\* each between 0 and 1, and together they make 1 up to the rounding of the
\* K divisions.
C20_ProbabilitiesSumToOne ==
    predictions >= 1 =>
        /\ Len(probabilities) = NumClasses
        /\ \A i \in DOMAIN probabilities :
             probabilities[i] >= 0 /\ probabilities[i] <= ONE
        /\ SumSeq(probabilities) <= ONE
        /\ SumSeq(probabilities) > ONE - NumClasses

C20_Witness ==
    /\ predictions >= 1
    /\ \E i \in DOMAIN probabilities : \E j \in DOMAIN probabilities :
         probabilities[i] < probabilities[j]
    /\ SumSeq(probabilities) < ONE

\* C21: the patience counter is bound whenever the bookkeeping of a
\* non-improving epoch is about to increment it, so the training cell never
\* ends in a NameError.
C21_PatienceBoundBeforeUse ==
    /\ (pc = "bookkeep" /\ ~Improves(val_acc, best_val_acc))
          => "patience" \in defined
    /\ pc # "NameError"

\* C22: the classifier used by predict_category holds the parameters left
\* by the last epoch trained: every optimizer step of every epoch is in
\* them, the PATIENCE + 1 non-improving epochs before an early stop
\* included, and no checkpoint is loaded back.
C22_PredictsWithLastParams ==
    predictions >= 1 =>
        /\ params = train_calls * NumBatches
        /\ pc = "stopped" => params = snap + (PATIENCE + 1) * NumBatches

C22_Witness ==
    /\ predictions >= 1
    /\ pc = "stopped"
    /\ snap < params
    /\ val_acc < best_val_acc

\* C23: a class of the input with fewer than num_samples documents makes
\* sample_data fail even when its name does not match the pattern, because
\* the sampling of every class comes before the filter.
C23_FailsOnFilteredOutClass ==
    ( /\ spc \in {"returned", "ValueError"}
      /\ \E l \in GroupKeys(df) :
            /\ ~Contains(NameOf(l), classes_to_keep)
            /\ Cardinality(Group(df, l)) < num_samples )
    => spc = "ValueError"

C23_Witness ==
    /\ spc = "ValueError"
    /\ \E l \in GroupKeys(df) : Contains(NameOf(l), classes_to_keep)
    /\ \A l \in GroupKeys(df) :
          Contains(NameOf(l), classes_to_keep)
             => Cardinality(Group(df, l)) >= num_samples

\* the class names of a sampled split
NamesIn(frame_in) == {frame_in[i].ClassName : i \in DOMAIN frame_in}

\* C24: when the two splits retain the same class names, a class name has
\* the same Encoded Label in df_train and in df_test, and the name printed
\* for probability index i is the name of the class trained as label i.
C24_SplitEncodingsAgree ==
    (xpc \in {"test_sampled", "predicted"}
        /\ NamesIn(df_train) = NamesIn(df_test)) =>
        /\ \A i \in DOMAIN df_train : \A j \in DOMAIN df_test :
              df_train[i].ClassName = df_test[j].ClassName
                 => df_train[i].EncodedLabel = df_test[j].EncodedLabel
        /\ xpc = "predicted" =>
              \A i \in DOMAIN df_train :
                 /\ df_train[i].EncodedLabel + 1 \in DOMAIN class_names
                 /\ class_names[df_train[i].EncodedLabel + 1]
                       = df_train[i].ClassName

C24_Witness ==
    /\ xpc = "predicted"
    /\ Cardinality(NamesIn(df_train)) = 2
    /\ NamesIn(df_train) = NamesIn(df_test)
    /\ corpora["train"].target_names # corpora["test"].target_names
    /\ \E i \in DOMAIN df_train : \E j \in DOMAIN df_test :
          /\ df_train[i].ClassName = df_test[j].ClassName
          /\ df_train[i].Label # df_test[j].Label

\* the least number of mini-batches of at most b samples that hold n samples
CeilDiv(n, b) == CHOOSE k \in 0..n : k * b >= n /\ (k = 0 \/ (k - 1) * b < n)

----------------------------------------------------------------------------
(* generate_random_number(shape, scale) of codes/AutoGen/autogen_tutorial   *)
(* (specification RngSpec)                                                  *)

\* the arguments tried: integers of either sign and zero
MaxArg == 3

\* the largest float np.random.gamma is taken to return, in halves
MaxGamma == 5

Arguments == (0 - 2)..MaxArg

\* a guard that lets zero through
InvalidArguments_Strict(sh, sc) == (sh < 0) \/ (sc < 0)

\* if (shape <= 0) or (scale <= 0)
InvalidArguments(sh, sc) == (sh <= 0) \/ (sc <= 0)

\* np.random.gamma(shape, scale): a non-negative float, here a number of
\* halves; a zero shape yields 0.0 and a negative argument raises
GammaSamples(sh, sc) ==
    IF sh < 0 \/ sc < 0 THEN {}
    ELSE IF sh = 0 \/ sc = 0 THEN {0}
    ELSE 0..MaxGamma

\* int(x) of a float given in halves: truncation toward zero
IntOf(halves) ==
    IF halves >= 0 THEN halves \div 2 ELSE 0 - ((0 - halves) \div 2)

RngInit ==
    /\ rpc = "call"
    /\ shape \in Arguments
    /\ scale \in Arguments
    /\ draws = 0
    /\ sample = 0
    /\ number = 0

\* generate_random_number(shape, scale)
GenerateRandomNumber ==
    /\ rpc = "call"
    /\ IF InvalidArguments(shape, scale)
       THEN /\ rpc' = "ValueError"
            /\ UNCHANGED <<draws, sample, number>>
       ELSE IF GammaSamples(shape, scale) = {}
       THEN /\ rpc' = "ValueError"
            /\ draws' = draws + 1
            /\ UNCHANGED <<sample, number>>
       ELSE \E x \in GammaSamples(shape, scale) :
               /\ rpc' = "returned"
               /\ draws' = draws + 1
               /\ sample' = x
               /\ number' = IntOf(x)
    /\ UNCHANGED <<shape, scale>>
    /\ UNCHANGED <<trainVars, sampleVars, embedVars, agentVars, textVars>>
    /\ UNCHANGED <<splitVars, chatVars, stepVars>>

RngNext == GenerateRandomNumber

RngStart ==
    /\ RngInit
    /\ TrainIdle /\ SampleIdle /\ EmbedIdle /\ AgentIdle /\ TextIdle
    /\ SplitIdle /\ ChatIdle /\ StepIdle

RngSpec == RngStart /\ [][RngNext]_vars

\* C29: generate_random_number raises ValueError exactly when shape <= 0 or
\* scale <= 0, and then np.random.gamma has not been called; for positive
\* shape and scale it draws once and returns a non-negative integer, the
\* integer part of the float drawn.
C29_RaisesIffNotPositive ==
    /\ rpc \in {"call", "ValueError", "returned"}
    /\ rpc = "ValueError" => /\ shape <= 0 \/ scale <= 0
                             /\ draws = 0
    /\ rpc = "returned" => /\ shape > 0 /\ scale > 0
                           /\ draws = 1
                           /\ number \in Nat
                           /\ 2 * number <= sample
                           /\ sample < 2 * (number + 1)

C29_Witness ==
    /\ rpc = "returned"
    /\ number > 0
    /\ 2 * number < sample

----------------------------------------------------------------------------
(* The hand-rolled agent step of the dummy-agent notebook                   *)
(* (specification StepSpec)                                                 *)

\* the longest continuation the model is taken to hold, in pieces
MaxPieces == 3

\* max_new_tokens=200
max_new_tokens == 200

\* stop=['Observation:']
stop == {"Observation:"}

\* a piece of text: what it says and how many tokens it takes
Piece(said, n) == [said |-> said, tokens |-> n]

\* the pieces a continuation is made of: the stop sequence, or other text of
\* one token, of one token less than the limit, or of the limit
ModelPieces ==
    {Piece("Observation:", 1)}
        \cup {Piece("text", n) : n \in {1, max_new_tokens - 1, max_new_tokens}}

ModelTexts == UNION {[1..n -> ModelPieces] : n \in 0..MaxPieces}

\* prompt: the system prompt, the user's question, the assistant header
prompt == <<Piece("prompt", 1)>>

\* get_weather(location)
get_weather(location) ==
    <<Piece("the weather in ", 1), Piece(location, 1),
      Piece(" is sunny with low temperatures. \n", 1)>>

\* token-by-token generation: it ends when the text is exhausted, when the
\* budget of new tokens is used up, or right after a stop sequence
RECURSIVE Generate(_, _, _)
Generate(continuation, budget, stops) ==
    IF continuation = <<>> \/ budget = 0 THEN <<>>
    ELSE LET piece == Head(continuation) IN
         IF piece.said \in stops THEN <<piece>>
         ELSE IF piece.tokens >= budget THEN <<Piece(piece.said, budget)>>
         ELSE <<piece>>
                 \o Generate(Tail(continuation), budget - piece.tokens, stops)

\* a generation call that ignores its stop sequences
text_generation_NoStop(continuation, limit, stops) ==
    Generate(continuation, limit, {})

\* client.text_generation(prompt, max_new_tokens=..., stop=[...])
text_generation(continuation, limit, stops) ==
    Generate(continuation, limit, stops)

StepInit ==
    /\ gpc = "prompted"
    /\ model_text \in ModelTexts
    /\ output_text = <<>>
    /\ weather_calls = 0
    /\ new_prompt = <<>>

\* output = client.text_generation(prompt, max_new_tokens=200)
GenerateFreely ==
    /\ gpc = "prompted"
    /\ output_text' = text_generation(model_text, max_new_tokens, {})
    /\ gpc' = "hallucinated"
    /\ UNCHANGED <<model_text, weather_calls, new_prompt>>
    /\ UNCHANGED <<trainVars, sampleVars, embedVars, agentVars, textVars>>
    /\ UNCHANGED <<splitVars, chatVars, rngVars>>

\* output = client.text_generation(prompt, max_new_tokens=200,
\*                                 stop=['Observation:'])
GenerateUntilStop ==
    /\ gpc = "hallucinated"
    /\ output_text' = text_generation(model_text, max_new_tokens, stop)
    /\ gpc' = "halted"
    /\ UNCHANGED <<model_text, weather_calls, new_prompt>>
    /\ UNCHANGED <<trainVars, sampleVars, embedVars, agentVars, textVars>>
    /\ UNCHANGED <<splitVars, chatVars, rngVars>>

\* def get_weather(location): ...; get_weather("London")
DefineGetWeather ==
    /\ gpc = "halted"
    /\ weather_calls' = weather_calls + 1
    /\ gpc' = "defined"
    /\ UNCHANGED <<model_text, output_text, new_prompt>>
    /\ UNCHANGED <<trainVars, sampleVars, embedVars, agentVars, textVars>>
    /\ UNCHANGED <<splitVars, chatVars, rngVars>>

\* new_prompt = prompt + output + get_weather("London")
UpdatePrompt ==
    /\ gpc = "defined"
    /\ weather_calls' = weather_calls + 1
    /\ new_prompt' = prompt \o output_text \o get_weather("London")
    /\ gpc' = "observed"
    /\ UNCHANGED <<model_text, output_text>>
    /\ UNCHANGED <<trainVars, sampleVars, embedVars, agentVars, textVars>>
    /\ UNCHANGED <<splitVars, chatVars, rngVars>>

StepNext ==
    \/ GenerateFreely
    \/ GenerateUntilStop
    \/ DefineGetWeather
    \/ UpdatePrompt

StepStart ==
    /\ StepInit
    /\ TrainIdle /\ SampleIdle /\ EmbedIdle /\ AgentIdle /\ TextIdle
    /\ SplitIdle /\ ChatIdle /\ RngIdle

StepSpec == StepStart /\ [][StepNext]_vars

\* the positions of a text that hold the stop sequence
StopsIn(t) == {i \in DOMAIN t : t[i].said = "Observation:"}

\* the tokens of the first n pieces of a text
RECURSIVE TokensUpTo(_, _)
TokensUpTo(t, n) == IF n = 0 THEN 0 ELSE TokensUpTo(t, n - 1) + t[n].tokens

\* C28: the generation with stop=['Observation:'] returns nothing the
\* model would write after its first 'Observation:': when the model reaches
\* the stop sequence within its token budget, the output is the model's
\* text up to and including that sequence; get_weather is not executed
\* before this generation has returned; and the follow-up prompt is the
\* original prompt, then the halted output, then get_weather's return
\* value, and nothing else.
C28_HaltThenObserve ==
    /\ gpc \in {"prompted", "hallucinated"} => weather_calls = 0
    /\ gpc \in {"halted", "defined", "observed"} =>
          /\ \A i \in StopsIn(output_text) : i = Len(output_text)
          /\ Len(output_text) <= Len(model_text)
          /\ \A i \in StopsIn(model_text) :
                (/\ \A j \in StopsIn(model_text) : i <= j
                 /\ TokensUpTo(model_text, i - 1) < max_new_tokens)
                    => output_text = SubSeq(model_text, 1, i)
    /\ gpc = "observed" =>
          /\ Len(new_prompt) = Len(prompt) + Len(output_text) + 3
          /\ SubSeq(new_prompt, 1, Len(prompt)) = prompt
          /\ SubSeq(new_prompt, Len(prompt) + 1,
                    Len(prompt) + Len(output_text)) = output_text
          /\ SubSeq(new_prompt, Len(prompt) + Len(output_text) + 1,
                    Len(new_prompt))
                = <<Piece("the weather in ", 1), Piece("London", 1),
                    Piece(" is sunny with low temperatures. \n", 1)>>

C28_Witness ==
    /\ gpc = "observed"
    /\ Len(output_text) = 2
    /\ Len(model_text) = 3
    /\ output_text[2].said = "Observation:"
    /\ new_prompt[Len(new_prompt) - 3].said = "Observation:"

----------------------------------------------------------------------------
(* The two-agent chats of codes/AutoGen/autogen_tutorial                    *)
(* (specification ChatSpec): the guess-my-number chat of human_proxy and    *)
(* agent_with_number, and the tool-use chat of User and Assistant.          *)

\* the value of max_consecutive_auto_reply the agents are given
MaxConsecutiveAutoReply == 2

\* the most tool calls one reply of the language model suggests
MaxCalls == 2

Str_17 == <<49, 55>>
Str_53 == <<53, 51>>
Str_153 == <<49, 53, 51>>
Str_too_low == <<116, 111, 111, 32, 108, 111, 119>>
Str_too_high == <<116, 111, 111, 32, 104, 105, 103, 104>>
Str_DONE == <<68, 79, 78, 69>>
Str_127 == <<49, 50, 55>>
Str_request == <<103, 101, 110, 101, 114, 97, 116, 101>>

\* a message of the chat history; has_content is FALSE for 'content': None
Message(from, has, said, calls, responses) ==
    [sender |-> from, has_content |-> has, content |-> said,
     tool_calls |-> calls, tool_responses |-> responses]

TextMessage(from, said) == Message(from, TRUE, said, {}, {})

\* the two agents of the chat running
Agents ==
    IF chat = "guess" THEN {"human_proxy", "agent_with_number"}
    ELSE {"User", "Assistant"}

AllAgents == {"human_proxy", "agent_with_number", "User", "Assistant"}

\* human_proxy.initiate_chat(recipient=agent_with_number, message="17")
\* user_proxy.initiate_chat(recipient=assistant, message=...)
FirstMessage ==
    IF chat = "guess" THEN TextMessage("human_proxy", Str_17)
    ELSE TextMessage("User", Str_request)

\* the agent the last message was sent to
Receiver == CHOOSE a \in Agents : a # history[Len(history)].sender

Received == history[Len(history)]

\* assistant.register_for_llm(name='generator')
registered_for_llm == {"Assistant"}

\* user_proxy.register_for_execution(name='generator')
registered_for_execution == {"User"}

\* a termination test that compares the content for equality
is_termination_msg_Equals(agent, x) ==
    IF agent = "agent_with_number" THEN x.content = Str_53
    ELSE IF agent = "User"
    THEN x.has_content /\ x.content = Str_DONE
    ELSE FALSE

\* agent_with_number: lambda x: '53' in x['content']
\* User: lambda x: x.get('content') is not None and 'DONE' in x.get('content')
is_termination_msg(agent, x) ==
    IF agent = "agent_with_number" THEN Contains(x.content, Str_53)
    ELSE IF agent = "User"
    THEN x.has_content /\ Contains(x.content, Str_DONE)
    ELSE FALSE

\* NEVER: the conversation stops when the number of auto replies reaches
\* max_consecutive_auto_reply or when is_termination_msg is True
NeverModeStops(agent) ==
    \/ auto_replies[agent] >= MaxConsecutiveAutoReply
    \/ is_termination_msg(agent, Received)

\* what the human types at human_proxy's prompt, "exit" apart
Guesses == {<<>>, Str_17, Str_53, Str_153}

\* the replies the language model of an agent may write: text, and for an
\* agent that has the tool's signature, suggested calls with or without text
LLMReplies(agent) ==
    IF agent = "agent_with_number"
    THEN {TextMessage(agent, said) : said \in {Str_too_low, Str_too_high}}
    ELSE {TextMessage(agent, said) : said \in {Str_127, Str_DONE}}
           \cup (IF agent \in registered_for_llm
                 THEN {Message(agent, FALSE, <<>>,
                               (suggested + 1)..(suggested + n), {}) :
                          n \in 1..MaxCalls}
                        \cup {Message(agent, TRUE, Str_DONE,
                                      {suggested + 1}, {})}
                 ELSE {})

\* an executor that runs only the first of the calls a message suggests
ExecuteCalls_FirstOnly(agent, calls) ==
    IF calls = {} THEN <<>>
    ELSE <<[by |-> agent, id |-> CHOOSE c \in calls : \A d \in calls : c <= d]>>

\* the execution records of a set of calls, in the order of their ids
RECURSIVE ExecuteCalls(_, _)
ExecuteCalls(agent, calls) ==
    IF calls = {} THEN <<>>
    ELSE LET first == CHOOSE c \in calls : \A d \in calls : c <= d IN
         <<[by |-> agent, id |-> first]>>
             \o ExecuteCalls(agent, calls \ {first})

ChatInit ==
    /\ cpc = "start"
    /\ chat \in {"guess", "tool"}
    /\ history = <<>>
    /\ auto_replies = [a \in AllAgents |-> 0]
    /\ suggested = 0
    /\ executed = <<>>

\* initiate_chat: the counters are reset and the first message is sent
InitiateChat ==
    /\ cpc = "start"
    /\ cpc' = "running"
    /\ history' = <<FirstMessage>>
    /\ auto_replies' = [a \in AllAgents |-> 0]
    /\ UNCHANGED <<chat, suggested, executed>>
    /\ UNCHANGED <<trainVars, sampleVars, embedVars, agentVars, textVars>>
    /\ UNCHANGED <<splitVars, stepVars, rngVars>>

\* agent_with_number (human_input_mode='NEVER') handles a received message
AgentWithNumberReceives ==
    /\ cpc = "running"
    /\ chat = "guess"
    /\ Receiver = "agent_with_number"
    /\ IF NeverModeStops("agent_with_number")
       THEN /\ cpc' = "ended"
            /\ UNCHANGED <<history, auto_replies>>
       ELSE /\ \E reply \in LLMReplies("agent_with_number") :
                  history' = Append(history, reply)
            /\ auto_replies' =
                  [auto_replies EXCEPT !["agent_with_number"] = @ + 1]
            /\ UNCHANGED cpc
    /\ UNCHANGED <<chat, suggested, executed>>
    /\ UNCHANGED <<trainVars, sampleVars, embedVars, agentVars, textVars>>
    /\ UNCHANGED <<splitVars, stepVars, rngVars>>

\* human_proxy (human_input_mode='ALWAYS') handles a received message: the
\* human types "exit", a guess, or nothing (the empty auto reply)
HumanProxyReceives ==
    /\ cpc = "running"
    /\ chat = "guess"
    /\ Receiver = "human_proxy"
    /\ \/ /\ cpc' = "ended"
          /\ UNCHANGED history
       \/ /\ \E guess \in Guesses :
                history' = Append(history, TextMessage("human_proxy", guess))
          /\ UNCHANGED cpc
    /\ UNCHANGED <<chat, auto_replies, suggested, executed>>
    /\ UNCHANGED <<trainVars, sampleVars, embedVars, agentVars, textVars>>
    /\ UNCHANGED <<splitVars, stepVars, rngVars>>

\* User (human_input_mode='NEVER', llm_config=False) handles a received
\* message: it executes the suggested calls and sends their results, or
\* sends the empty default auto reply
UserReceives ==
    /\ cpc = "running"
    /\ chat = "tool"
    /\ Receiver = "User"
    /\ IF NeverModeStops("User")
       THEN /\ cpc' = "ended"
            /\ UNCHANGED <<history, auto_replies, executed>>
       ELSE /\ auto_replies' = [auto_replies EXCEPT !["User"] = @ + 1]
            /\ UNCHANGED cpc
            /\ IF Received.tool_calls # {}
                     /\ "User" \in registered_for_execution
               THEN /\ executed' =
                          executed \o ExecuteCalls("User", Received.tool_calls)
                    /\ history' =
                          Append(history, Message("User", TRUE, Str_127, {},
                                                  Received.tool_calls))
               ELSE /\ history' = Append(history, TextMessage("User", <<>>))
                    /\ UNCHANGED executed
    /\ UNCHANGED <<chat, suggested>>
    /\ UNCHANGED <<trainVars, sampleVars, embedVars, agentVars, textVars>>
    /\ UNCHANGED <<splitVars, stepVars, rngVars>>

\* Assistant (the default mode, TERMINATE) handles a received message: its
\* language model replies; once its auto replies reach the limit the human
\* is prompted, who types "exit" or a reply
AssistantReceives ==
    /\ cpc = "running"
    /\ chat = "tool"
    /\ Receiver = "Assistant"
    /\ IF auto_replies["Assistant"] >= MaxConsecutiveAutoReply
       THEN \/ /\ cpc' = "ended"
               /\ UNCHANGED <<history, auto_replies, suggested, executed>>
            \/ /\ history' =
                     Append(history, TextMessage("Assistant", Str_127))
               /\ auto_replies' = [auto_replies EXCEPT !["Assistant"] = 0]
               /\ UNCHANGED <<cpc, suggested, executed>>
       ELSE /\ \E reply \in LLMReplies("Assistant") :
                  /\ history' = Append(history, reply)
                  /\ suggested' = suggested + Cardinality(reply.tool_calls)
            /\ auto_replies' = [auto_replies EXCEPT !["Assistant"] = @ + 1]
            /\ IF Received.tool_calls # {}
                     /\ "Assistant" \in registered_for_execution
               THEN executed' =
                       executed \o ExecuteCalls("Assistant",
                                                Received.tool_calls)
               ELSE UNCHANGED executed
            /\ UNCHANGED cpc
    /\ UNCHANGED chat
    /\ UNCHANGED <<trainVars, sampleVars, embedVars, agentVars, textVars>>
    /\ UNCHANGED <<splitVars, stepVars, rngVars>>

ChatNext ==
    \/ InitiateChat
    \/ AgentWithNumberReceives
    \/ HumanProxyReceives
    \/ UserReceives
    \/ AssistantReceives

ChatStart ==
    /\ ChatInit
    /\ TrainIdle /\ SampleIdle /\ EmbedIdle /\ AgentIdle /\ TextIdle
    /\ SplitIdle /\ StepIdle /\ RngIdle

ChatSpec == ChatStart /\ [][ChatNext]_vars

----------------------------------------------------------------------------
(* Properties of the two-agent chats (specification ChatSpec) *)

NeverAgents == {"agent_with_number", "User"}

\* the message holds what the agent's termination test looks for
SatisfiesTermination(agent, x) ==
    IF agent = "agent_with_number" THEN Contains(x.content, Str_53)
    ELSE x.has_content /\ Contains(x.content, Str_DONE)

\* the agent is about to handle the last message of the history
Handles(agent) ==
    /\ cpc = "running"
    /\ agent \in Agents
    /\ Receiver = agent

\* the step ends the chat with the received message last in the history
EndsChat == cpc' = "ended" /\ history' = history

\* the step appends exactly one message, sent by the agent
OneReply(agent) ==
    /\ cpc' = "running"
    /\ Len(history') = Len(history) + 1
    /\ SubSeq(history', 1, Len(history)) = history
    /\ history'[Len(history')].sender = agent

\* C26 as stated: an agent in NEVER mode sends no reply to a received
\* message that satisfies its is_termination_msg, the chat ending with that
\* message last in the history, and sends exactly one auto reply to every
\* other received message.
C26_ReplyUnlessTerminated ==
    [][\A agent \in NeverAgents :
          Handles(agent) =>
             IF SatisfiesTermination(agent, Received)
             THEN EndsChat
             ELSE OneReply(agent)]_vars

\* C26: an agent in NEVER mode sends no reply to a received message that
\* satisfies its is_termination_msg ('53' in the content for
\* agent_with_number; content not null and holding 'DONE' for User) or that
\* arrives when its consecutive auto replies have reached
\* max_consecutive_auto_reply, and the chat ends with that message last in
\* the history; to every other received message, a message with null
\* content included, it sends exactly one auto reply.
C26_ReplyUnlessTerminatedOrLimit ==
    [][\A agent \in NeverAgents :
          Handles(agent) =>
             IF \/ SatisfiesTermination(agent, Received)
                \/ auto_replies[agent] >= MaxConsecutiveAutoReply
             THEN EndsChat
             ELSE OneReply(agent)]_vars

C26_Witness ==
    /\ cpc = "ended"
    /\ chat = "guess"
    /\ Receiver = "agent_with_number"
    /\ ~Contains(Received.content, Str_53)
    /\ auto_replies["agent_with_number"] = MaxConsecutiveAutoReply

\* how often a call was executed
TimesExecuted(call) ==
    Cardinality({k \in DOMAIN executed : executed[k].id = call})

\* tool calls are suggested by Assistant only and executed by User only,
\* and a message that suggests calls is followed by User's message with
\* their results
SuggestedAndExecutedByTheRegistered ==
    /\ \A i \in DOMAIN history :
          history[i].tool_calls # {} => history[i].sender = "Assistant"
    /\ \A k \in DOMAIN executed : executed[k].by = "User"
    /\ \A i \in DOMAIN history :
          (history[i].tool_calls # {} /\ i < Len(history)) =>
             /\ history[i + 1].sender = "User"
             /\ history[i + 1].tool_responses = history[i].tool_calls

====
